---- MODULE Spec2Model ----
(***************************************************************************)
(* Model of glances/plugins/glances_gpu.py: the NVIDIA GPU plugin.         *)
(* The plugin object (nvml_ready, device_handles, stats, input_method),   *)
(* the pynvml driver it talks to (session, device table, per-query         *)
(* outcomes) and the text msg_curse builds are modelled; every method of   *)
(* the plugin is one action.                                               *)
(***************************************************************************)
EXTENDS Integers, Sequences, FiniteSets, TLC

(* ---------------------------- bounds ----------------------------------- *)
\* largest number of devices the driver enumerates
MaxDevices == 2
\* largest number of exit() calls explored
MaxExit == 2

(* ----------------------- Python values --------------------------------- *)
PyNone == [t |-> "None", n |-> 0, s |-> ""]
PyInt(n) == [t |-> "int", n |-> n, s |-> ""]
\* a float with a whole value n.0 (the only floats the bounded inputs give)
PyFloat(n) == [t |-> "float", n |-> n, s |-> ""]
PyStr(s) == [t |-> "str", n |-> 0, s |-> s]

NoExc == "none"
\* classes an "except Exception" clause catches
ExceptionClasses == {"NVMLError", "NameError", "AttributeError", "TypeError", "ValueError"}
\* the exception class names the pynvml module really has
PynvmlAttrs == {"NVMLError"}

Min(a, b) == IF a < b THEN a ELSE b

(* ----------------------- str.format ------------------------------------ *)
Digits == <<"0", "1", "2", "3", "4", "5", "6", "7", "8", "9">>
IsDigit(c) == \E i \in 1..10 : Digits[i] = c
DigitVal(c) == (CHOOSE i \in 1..10 : Digits[i] = c) - 1
AlignChars == {"<", ">", "=", "^"}
TypeChars == {"s", "d", "b", "c", "e", "E", "f", "F", "g", "G", "n", "o", "x", "X", "%"}

Spaces(k) == SubSeq("                ", 1, k)

\* number of leading decimal digits of s
RECURSIVE DigitPrefix(_)
DigitPrefix(s) ==
    IF Len(s) > 0 /\ IsDigit(SubSeq(s, 1, 1))
    THEN 1 + DigitPrefix(SubSeq(s, 2, Len(s)))
    ELSE 0

RECURSIVE DigitsValue(_, _)
DigitsValue(s, acc) ==
    IF Len(s) = 0 THEN acc
    ELSE DigitsValue(SubSeq(s, 2, Len(s)), acc * 10 + DigitVal(SubSeq(s, 1, 1)))

\* format_spec ::= [align][width][type]; anything left over is invalid
ParseSpec(spec) ==
    LET hasAlign == Len(spec) > 0 /\ SubSeq(spec, 1, 1) \in AlignChars
        align == IF hasAlign THEN SubSeq(spec, 1, 1) ELSE ""
        r1 == IF hasAlign THEN SubSeq(spec, 2, Len(spec)) ELSE spec
        nd == DigitPrefix(r1)
        width == DigitsValue(SubSeq(r1, 1, nd), 0)
        r2 == SubSeq(r1, nd + 1, Len(r1))
    IN  [valid |-> (r2 = "" \/ (Len(r2) = 1 /\ r2 \in TypeChars)),
         align |-> align, width |-> width, type |-> r2]

Pad(s, align, width) ==
    IF Len(s) >= width THEN s
    ELSE IF align = ">" THEN Spaces(width - Len(s)) \o s
    ELSE s \o Spaces(width - Len(s))

\* str(value)
PyToStr(v) ==
    CASE v.t = "None" -> "None"
      [] v.t = "int" -> ToString(v.n)
      [] v.t = "float" -> ToString(v.n) \o ".0"
      [] OTHER -> v.s

\* format(value, spec): [raised, s]
PyFormat(v, spec, py3) ==
    LET p == ParseSpec(spec)
        num == v.t \in {"int", "float"}
        align == IF p.align # "" THEN p.align ELSE IF num THEN ">" ELSE "<"
        okType == CASE v.t = "int" -> p.type \in {"", "d"}
                    [] v.t = "float" -> p.type = ""
                    [] OTHER -> p.type \in {"", "s"}
    IN  IF spec = "" THEN [raised |-> NoExc, s |-> PyToStr(v)]
        ELSE IF v.t = "None" /\ py3 THEN [raised |-> "TypeError", s |-> ""]
        ELSE IF ~p.valid \/ ~okType THEN [raised |-> "ValueError", s |-> ""]
        ELSE [raised |-> NoExc, s |-> Pad(PyToStr(v), align, p.width)]

\* int(value): [raised, n]
PyIntOf(v) ==
    IF v.t \in {"int", "float"} THEN [raised |-> NoExc, n |-> v.n]
    ELSE [raised |-> "TypeError", n |-> 0]

\* header[:16]
Slice16(s) == SubSeq(s, 1, Min(16, Len(s)))

(* ----------------------- the pynvml driver ------------------------------ *)
\* opaque device handles the driver hands out
Handles == 1..MaxDevices
DeviceNames == <<"GeForce GTX 560 Ti", "Tesla K80", "Quadro P400", "GeForce GT 710">>
\* nvmlDeviceGetName of a handle, when the query succeeds
DeviceName(h) == DeviceNames[((h - 1) % Len(DeviceNames)) + 1]

\* the device tables the driver can have: handles in enumeration order; a
\* handle's value need not follow its index
Enumerations ==
    UNION {{[i \in 1..n |-> i], [i \in 1..n |-> n + 1 - i]} : n \in 0..MaxDevices}

\* how the driver answers at start-up: nvmlInit, nvmlDeviceGetCount, and the
\* index (1-based, 0 = none) whose nvmlDeviceGetHandleByIndex raises
BootOutcomes(enum) ==
    [init : {"ok", "NVMLError"}, count : {"ok", "NVMLError"}, badHandle : 0..Len(enum)]

\* values nvmlDeviceGetUtilizationRates reports
GpuVals == {60}
MemVals == {30}
\* values nvmlDeviceGetMemoryInfo reports (used, total), total > 0
MemInfos == {[used |-> 1, total |-> 2]}

RatesOutcomes ==
    {[err |-> TRUE, gpu |-> 0, memory |-> 0]}
    \cup {[err |-> FALSE, gpu |-> g, memory |-> m] : g \in GpuVals, m \in MemVals}
MemInfoOutcomes ==
    {[err |-> TRUE, used |-> 0, total |-> 1]}
    \cup {[err |-> FALSE, used |-> i.used, total |-> i.total] : i \in MemInfos}
NotAskedRates == [err |-> TRUE, gpu |-> 0, memory |-> 0]
NotAskedMemInfo == [err |-> TRUE, used |-> 0, total |-> 1]
\* the driver's answers to the queries of one device in one cycle; the
\* utilization-rates query is issued twice (get_mem, get_proc).  A query the
\* plugin does not get to issue has no answer: the memory-info query is
\* issued only after a failed rates query, and nothing is asked after a
\* failed name query
QueryOutcomes ==
    {o \in [name_err : BOOLEAN, rates_mem : RatesOutcomes, meminfo : MemInfoOutcomes,
            rates_proc : RatesOutcomes] :
        /\ ~o.rates_mem.err => o.meminfo = NotAskedMemInfo
        /\ o.name_err => /\ o.rates_mem = NotAskedRates
                         /\ o.meminfo = NotAskedMemInfo
                         /\ o.rates_proc = NotAskedRates}

\* "except pynvml.<attr>:" reached with exception exc in flight: looking the
\* class up on the module comes first, then the isinstance test
ExceptClause(attr, exc) ==
    IF attr \notin PynvmlAttrs THEN [caught |-> FALSE, raised |-> "AttributeError"]
    ELSE IF exc = attr THEN [caught |-> TRUE, raised |-> NoExc]
    ELSE [caught |-> FALSE, raised |-> exc]

(* ----------------------- Plugin methods -------------------------------- *)
get_key == "gpu_id"

get_device_handles(boot, enum) ==
    IF boot.count # "ok" \/ boot.badHandle # 0
    THEN [raised |-> "NVMLError", value |-> <<>>]
    ELSE [raised |-> NoExc, value |-> enum]

\* init_nvidia with "except pynvml.NVMLError" in place of "except Exception"
init_nvidia_narrow(tag, boot, enum) ==
    LET handles == get_device_handles(boot, enum)
        exc == IF ~tag THEN "NameError"
               ELSE IF boot.init # "ok" THEN "NVMLError"
               ELSE handles.raised
        caught == exc = "NVMLError"
    IN  [exc |-> exc,
         raised |-> IF exc # NoExc /\ ~caught THEN exc ELSE NoExc,
         nvml_ready |-> (exc = NoExc),
         device_handles |-> IF exc = NoExc THEN handles.value ELSE <<>>,
         session |-> IF tag /\ boot.init = "ok" THEN "open" ELSE "none"]

\* [exc: what the try block raised, raised: what init_nvidia lets escape,
\*  nvml_ready, device_handles, session: whether nvmlInit opened a session]
init_nvidia(tag, boot, enum) ==
    LET handles == get_device_handles(boot, enum)
        exc == IF ~tag THEN "NameError"
               ELSE IF boot.init # "ok" THEN "NVMLError"
               ELSE handles.raised
        caught == exc \in ExceptionClasses
    IN  [exc |-> exc,
         raised |-> IF exc # NoExc /\ ~caught THEN exc ELSE NoExc,
         nvml_ready |-> (exc = NoExc),
         device_handles |-> IF exc = NoExc THEN handles.value ELSE <<>>,
         session |-> IF tag /\ boot.init = "ok" THEN "open" ELSE "none"]

get_device_name(device_handle, o) ==
    IF ~o.name_err THEN [raised |-> NoExc, value |-> DeviceName(device_handle)]
    ELSE LET c == ExceptClause("NVMlError", "NVMLError")
         IN  IF c.caught THEN [raised |-> NoExc, value |-> "NVIDIA GPU"]
             ELSE [raised |-> c.raised, value |-> ""]

\* used * 100 / total: floor division on Python 2, true division on Python 3
PyDiv(a, b, py3) == IF py3 THEN PyFloat(a \div b) ELSE PyInt(a \div b)

get_mem(o, py3) ==
    IF ~o.rates_mem.err
    THEN [raised |-> NoExc, value |-> PyInt(o.rates_mem.memory), calls |-> 1, src |-> "rates"]
    ELSE LET c == ExceptClause("NVMLError", "NVMLError")
         IN  IF ~c.caught THEN [raised |-> c.raised, value |-> PyNone, calls |-> 1, src |-> "-"]
             ELSE IF ~o.meminfo.err
             THEN [raised |-> NoExc,
                   value |-> PyDiv(o.meminfo.used * 100, o.meminfo.total, py3),
                   calls |-> 2, src |-> "meminfo"]
             ELSE LET c2 == ExceptClause("NVMLError", "NVMLError")
                  IN  IF c2.caught
                      THEN [raised |-> NoExc, value |-> PyNone, calls |-> 2, src |-> "NVMLError"]
                      ELSE [raised |-> c2.raised, value |-> PyNone, calls |-> 2, src |-> "-"]

get_proc(o) ==
    IF ~o.rates_proc.err
    THEN [raised |-> NoExc, value |-> PyInt(o.rates_proc.gpu), src |-> "ok"]
    ELSE LET c == ExceptClause("NVMLError", "NVMLError")
         IN  IF c.caught THEN [raised |-> NoExc, value |-> PyNone, src |-> "NVMLError"]
             ELSE [raised |-> c.raised, value |-> PyNone, src |-> "-"]

\* the for loop of get_device_stats from position index on; log records the
\* driver queries actually issued, per device
RECURSIVE get_device_stats_loop(_, _, _, _, _, _, _)
get_device_stats_loop(device_handles, q, py3, index, stats, calls, log) ==
    IF index >= Len(device_handles)
    THEN [raised |-> NoExc, stats |-> stats, calls |-> calls, log |-> log]
    ELSE
      LET h == device_handles[index + 1]
          o == q[index + 1]
          nm == get_device_name(h, o)
          mem == get_mem(o, py3)
          proc == get_proc(o)
          entry == [handle |-> h,
                    name |-> IF o.name_err THEN "NVMLError" ELSE "ok",
                    mem |-> IF nm.raised # NoExc THEN "-" ELSE mem.src,
                    proc |-> IF nm.raised # NoExc \/ mem.raised # NoExc THEN "-" ELSE proc.src]
      IN  IF nm.raised # NoExc
          THEN [raised |-> nm.raised, stats |-> stats, calls |-> calls + 1,
                log |-> Append(log, entry)]
          ELSE IF mem.raised # NoExc
          THEN [raised |-> mem.raised, stats |-> stats, calls |-> calls + 1 + mem.calls,
                log |-> Append(log, entry)]
          ELSE IF proc.raised # NoExc
          THEN [raised |-> proc.raised, stats |-> stats, calls |-> calls + 2 + mem.calls,
                log |-> Append(log, entry)]
          ELSE get_device_stats_loop(device_handles, q, py3, index + 1,
                   Append(stats, [key |-> get_key, gpu_id |-> index, name |-> nm.value,
                                  mem |-> mem.value, proc |-> proc.value]),
                   calls + 2 + mem.calls, Append(log, entry))

Range(f) == {f[i] : i \in DOMAIN f}
SortedSeq(f) ==
    CHOOSE g \in [1..Len(f) -> Range(f)] :
        /\ Range(g) = Range(f)
        /\ \A i, j \in 1..Len(f) : i < j => g[i] <= g[j]

\* get_device_stats walking the handles in sorted order, not driver order
get_device_stats_sorted(device_handles, q, py3) ==
    get_device_stats_loop(SortedSeq(device_handles), q, py3, 0, <<>>, 0, <<>>)

\* on a raise, stats is the local list built so far (never returned)
get_device_stats(device_handles, q, py3) ==
    get_device_stats_loop(device_handles, q, py3, 0, <<>>, 0, <<>>)

reset == <<>>

\* update() without the reset() at its start
update_no_reset(disabled, ready, method, device_handles, old_stats, q, py3) ==
    IF disabled
    THEN [raised |-> NoExc, stats |-> old_stats, calls |-> 0, log |-> <<>>]
    ELSE IF ~ready
    THEN [raised |-> NoExc, stats |-> old_stats, calls |-> 0, log |-> <<>>]
    ELSE IF method = "local"
    THEN LET r == get_device_stats(device_handles, q, py3)
         IN  IF r.raised # NoExc
             THEN [raised |-> r.raised, stats |-> old_stats, calls |-> r.calls, log |-> r.log]
             ELSE [raised |-> NoExc, stats |-> r.stats, calls |-> r.calls, log |-> r.log]
    ELSE [raised |-> NoExc, stats |-> old_stats, calls |-> 0, log |-> <<>>]

\* update() under _check_decorator: [raised, stats: self.stats afterwards,
\* calls: driver queries issued, log]
update(disabled, ready, method, device_handles, old_stats, q, py3) ==
    IF disabled
    THEN [raised |-> NoExc, stats |-> old_stats, calls |-> 0, log |-> <<>>]
    ELSE IF ~ready
    THEN [raised |-> NoExc, stats |-> reset, calls |-> 0, log |-> <<>>]
    ELSE IF method = "local"
    THEN LET r == get_device_stats(device_handles, q, py3)
         IN  IF r.raised # NoExc
             THEN [raised |-> r.raised, stats |-> reset, calls |-> r.calls, log |-> r.log]
             ELSE [raised |-> NoExc, stats |-> r.stats, calls |-> r.calls, log |-> r.log]
    ELSE [raised |-> NoExc, stats |-> reset, calls |-> 0, log |-> <<>>]

(* ----------------------- msg_curse -------------------------------------- *)
\* GlancesPlugin.curse_add_line / curse_new_line: one display line
curse_add_line(msg, decoration) == [msg |-> msg, decoration |-> decoration]
curse_new_line == curse_add_line("\n", "DEFAULT")

\* the host's alert of a value: none for a missing value, else the highest
\* boundary reached
get_alert(v) ==
    IF v.t = "None" THEN "OK"
    ELSE IF v.n >= 90 THEN "CRITICAL"
    ELSE IF v.n >= 70 THEN "WARNING"
    ELSE IF v.n >= 50 THEN "CAREFUL"
    ELSE "OK"

\* get_views(item, key, option='decoration') once update_views has run
get_views(gpu_stats, key) == get_alert(IF key = "proc" THEN gpu_stats.proc ELSE gpu_stats.mem)

\* '{} {}'.format(a, b)
Format2(a, b, py3) == PyFormat(a, "", py3).s \o " " \o PyFormat(b, "", py3).s

\* the "Mono GPU" branch
msg_curse_mono(gpu_stats, py3) ==
    LET header == Format2(PyStr("GPU"), PyStr(gpu_stats.name), py3)
        head == <<curse_add_line(Slice16(header), "TITLE"), curse_new_line,
                  curse_add_line(PyFormat(PyStr("proc:"), "8", py3).s, "DEFAULT")>>
        pint == PyIntOf(gpu_stats.proc)
        pfmt == PyFormat(PyInt(pint.n), ">7d", py3)
        procl == head \o <<curse_add_line(pfmt.s \o "%", get_views(gpu_stats, "proc")),
                           curse_new_line,
                           curse_add_line(PyFormat(PyStr("mem:"), "8", py3).s, "DEFAULT")>>
        mint == PyIntOf(gpu_stats.mem)
        mfmt == IF gpu_stats.mem = PyNone THEN PyFormat(PyStr("N/A"), ">8", py3)
                ELSE IF mint.raised # NoExc THEN [raised |-> mint.raised, s |-> ""]
                ELSE PyFormat(PyInt(mint.n), ">7d%", py3)
    IN  IF pint.raised # NoExc THEN [raised |-> pint.raised, lines |-> <<>>]
        ELSE IF pfmt.raised # NoExc THEN [raised |-> pfmt.raised, lines |-> <<>>]
        ELSE IF mfmt.raised # NoExc THEN [raised |-> mfmt.raised, lines |-> <<>>]
        ELSE [raised |-> NoExc,
              lines |-> procl \o <<curse_add_line(mfmt.s, get_views(gpu_stats, "mem"))>>]

\* '{}: {:>3}% mem: {:>3}%'.format(gpu_id, proc, mem)
FormatRow(gpu_stats, py3) ==
    LET f0 == PyFormat(PyInt(gpu_stats.gpu_id), "", py3)
        f1 == PyFormat(gpu_stats.proc, ">3", py3)
        f2 == PyFormat(gpu_stats.mem, ">3", py3)
    IN  IF f0.raised # NoExc THEN [raised |-> f0.raised, s |-> ""]
        ELSE IF f1.raised # NoExc THEN [raised |-> f1.raised, s |-> ""]
        ELSE IF f2.raised # NoExc THEN [raised |-> f2.raised, s |-> ""]
        ELSE [raised |-> NoExc, s |-> f0.s \o ": " \o f1.s \o "% mem: " \o f2.s \o "%"]

\* the for loop of the "Multi GPU" branch from position i on
RECURSIVE msg_curse_rows(_, _, _, _)
msg_curse_rows(stats, py3, i, ret) ==
    IF i > Len(stats) THEN [raised |-> NoExc, lines |-> ret]
    ELSE LET row == FormatRow(stats[i], py3)
         IN  IF row.raised # NoExc THEN [raised |-> row.raised, lines |-> <<>>]
             ELSE msg_curse_rows(stats, py3, i + 1,
                      ret \o <<curse_new_line, curse_add_line(row.s, "DEFAULT")>>)

msg_curse_multi(stats, py3) ==
    LET header == Format2(PyInt(Len(stats)), PyStr("GPUs"), py3)
    IN  msg_curse_rows(stats, py3, 1, <<curse_add_line(Slice16(header), "TITLE")>>)

\* [raised, lines: the returned list]
msg_curse(stats, disabled, py3) ==
    IF stats = <<>> \/ disabled THEN [raised |-> NoExc, lines |-> <<>>]
    ELSE IF Len(stats) = 1 THEN msg_curse_mono(stats[1], py3)
    ELSE msg_curse_multi(stats, py3)

\* exit(): nvmlShutdown is attempted only when nvml_ready; its failure is
\* logged; the parent's exit runs afterwards
exit(ready, shutdown_ok) ==
    [raised |-> NoExc,
     shutdown_called |-> ready,
     logged |-> ready /\ ~shutdown_ok,
     parent_exit |-> TRUE]

(* ----------------------- state ----------------------------------------- *)
VARIABLES
    gpu_nvidia_tag,   \* module level: pynvml was importable
    python3,          \* the interpreter is Python 3 (else Python 2.7)
    is_disable,       \* the plugin is disabled in the arguments
    nvml_enum,        \* driver: its device table
    nvml_session,     \* driver: "none", "open" or "closed"
    nvml_shutdowns,   \* driver: number of nvmlShutdown calls received
    init_res,         \* what init_nvidia did during construction
    nvml_ready, device_handles, stats, input_method,  \* the plugin's fields
    exits,            \* number of exit() calls so far (the host calls exit() last)
    polled,           \* update() has been called at least once
    assigned,         \* every <<handle, gpu_id>> a published reading paired
    ret               \* the latest call: which, its outcome, what it returned

vars == <<gpu_nvidia_tag, python3, is_disable, nvml_enum, nvml_session, nvml_shutdowns,
          init_res, nvml_ready, device_handles, stats, input_method, exits, polled, assigned,
          ret>>

Ret(op, raised, lines, calls, before, log, parent_exit) ==
    [op |-> op, raised |-> raised, lines |-> lines, calls |-> calls, before |-> before,
     log |-> log, parent_exit |-> parent_exit]

\* __init__: init_nvidia() then reset()
Init ==
    /\ gpu_nvidia_tag \in BOOLEAN
    /\ python3 \in BOOLEAN
    /\ is_disable \in BOOLEAN
    /\ input_method \in {"local", "snmp"}
    /\ nvml_enum \in Enumerations
    /\ \E boot \in BootOutcomes(nvml_enum) :
         LET r == init_nvidia(gpu_nvidia_tag, boot, nvml_enum)
         IN  /\ init_res = [exc |-> r.exc, raised |-> r.raised]
             /\ nvml_ready = r.nvml_ready
             /\ device_handles = r.device_handles
             /\ nvml_session = r.session
    /\ nvml_shutdowns = 0
    /\ stats = reset
    /\ exits = 0
    /\ polled = FALSE
    /\ assigned = {}
    /\ ret = Ret("__init__", init_res.raised, <<>>, 0, 0, <<>>, FALSE)

Constructed == init_res.raised = NoExc
\* the host stops polling and drawing once it has begun to shut down
Running == Constructed /\ exits = 0

Update ==
    /\ Running
    /\ \E q \in [1..Len(device_handles) -> QueryOutcomes] :
         \E r \in {update(is_disable, nvml_ready, input_method, device_handles, stats, q, python3)} :
             /\ stats' = r.stats
             /\ polled' = TRUE
             /\ ret' = Ret("update", r.raised, <<>>, r.calls, Len(stats), r.log, FALSE)
             /\ assigned' = IF r.raised = NoExc /\ r.calls > 0
                            THEN assigned \cup {<<r.log[i].handle, r.stats[i].gpu_id>> :
                                                  i \in 1..Len(r.stats)}
                            ELSE assigned
    /\ UNCHANGED <<gpu_nvidia_tag, python3, is_disable, nvml_enum, nvml_session,
                   nvml_shutdowns, init_res, nvml_ready, device_handles, input_method, exits>>

MsgCurse ==
    /\ Running
    /\ LET r == msg_curse(stats, is_disable, python3)
       IN  ret' = Ret("msg_curse", r.raised, r.lines, 0, Len(stats), <<>>, FALSE)
    /\ UNCHANGED <<gpu_nvidia_tag, python3, is_disable, nvml_enum, nvml_session,
                   nvml_shutdowns, init_res, nvml_ready, device_handles, stats,
                   input_method, exits, polled, assigned>>

Exit ==
    /\ Constructed
    /\ exits < MaxExit
    /\ \E shutdown_ok \in BOOLEAN :
         LET r == exit(nvml_ready, shutdown_ok)
         IN  /\ nvml_shutdowns' = IF r.shutdown_called THEN nvml_shutdowns + 1
                                  ELSE nvml_shutdowns
             /\ nvml_session' = IF r.shutdown_called /\ shutdown_ok THEN "closed"
                                ELSE nvml_session
             /\ ret' = Ret("exit", r.raised, <<>>, 0, Len(stats), <<>>, r.parent_exit)
    /\ exits' = exits + 1
    /\ UNCHANGED <<gpu_nvidia_tag, python3, is_disable, nvml_enum, init_res, nvml_ready,
                   device_handles, stats, input_method, polled, assigned>>

\* the host switches the plugin between local and remote collection
SetInputMethod ==
    /\ Running
    /\ \E m \in {"local", "snmp"} :
         /\ m # input_method
         /\ input_method' = m
    /\ ret' = Ret("set_input_method", NoExc, <<>>, 0, Len(stats), <<>>, FALSE)
    /\ UNCHANGED <<gpu_nvidia_tag, python3, is_disable, nvml_enum, nvml_session,
                   nvml_shutdowns, init_res, nvml_ready, device_handles, stats, exits,
                   polled, assigned>>

Next == Update \/ MsgCurse \/ Exit \/ SetInputMethod

Spec == Init /\ [][Next]_vars

(* ----------------------- reading the rendered text ---------------------- *)
\* position of the first occurrence of sub in s, 0 when there is none
IndexOf(s, sub) ==
    LET hits == {i \in 1..(Len(s) - Len(sub) + 1) : SubSeq(s, i, i + Len(sub) - 1) = sub}
    IN  IF hits = {} THEN 0 ELSE CHOOSE i \in hits : \A j \in hits : i <= j
Contains(s, sub) == IndexOf(s, sub) # 0
StartsWith(s, sub) == Len(s) >= Len(sub) /\ SubSeq(s, 1, Len(sub)) = sub

Devices == 1..Len(stats)
Collected == ret.op = "update" /\ ~is_disable /\ nvml_ready /\ input_method = "local"

\* the text msg_curse returned for device i's utilization and memory: the
\* value lines of the detail layout, the two halves of a summary row
Row(i) == ret.lines[1 + 2 * i].msg
ProcText(i) ==
    IF Len(stats) = 1 THEN ret.lines[4].msg
    ELSE SubSeq(Row(i), 1, IndexOf(Row(i), "mem:") - 1)
MemText(i) ==
    IF Len(stats) = 1 THEN ret.lines[7].msg
    ELSE SubSeq(Row(i), IndexOf(Row(i), "mem:"), Len(Row(i)))

(* ----------------------- properties ------------------------------------- *)
\* C1: when driver initialisation fails (pynvml missing, nvmlInit raising,
\* handle enumeration raising) init_nvidia lets no error escape, nvml_ready
\* is False from then on, and every update() returns an empty list without
\* issuing a driver query.
C1_InitFailureDisables ==
    init_res.exc # NoExc =>
        /\ init_res.raised = NoExc
        /\ ~nvml_ready
        /\ stats = <<>>
        /\ ret.op = "update" => (ret.raised = NoExc /\ ret.calls = 0)

C1_Witness ==
    /\ init_res.exc = "NameError"
    /\ ~gpu_nvidia_tag
    /\ ~is_disable
    /\ input_method = "local"
    /\ ret.op = "update"

\* C2: a cycle whose update() fails while collecting leaves the stored stats
\* as they were before the cycle, or empty when it was the first cycle, and
\* never partly filled.
C2_FailedUpdateKeepsStats ==
    [][(ret'.op = "update" /\ ret'.raised # NoExc) =>
          \/ stats' = stats
          \/ (~polled /\ stats' = <<>>)]_vars

\* C3: msg_curse renders the memory of every reading whose mem is None as
\* "N/A" and does not raise, in the detail and in the summary layout.
C3_MemNoneRendersNA ==
    (ret.op = "msg_curse" /\ \E i \in Devices : stats[i].mem = PyNone) =>
        /\ ret.raised = NoExc
        /\ \A i \in Devices : stats[i].mem = PyNone => Contains(MemText(i), "N/A")

\* C4: a session opened by nvmlInit receives nvmlShutdown exactly once: not
\* more than once ever, not zero times once exit() has run; exit() never
\* raises and always reaches the parent's exit.
C4_ShutdownExactlyOnce ==
    /\ nvml_shutdowns <= 1
    /\ (exits >= 1 /\ nvml_session # "none") => nvml_shutdowns = 1
    /\ ret.op = "exit" => (ret.raised = NoExc /\ ret.parent_exit)

\* C5: when every reading has both metrics, msg_curse does not raise and
\* returns nothing for zero devices, a title with a labelled proc row and a
\* labelled mem row in percent for one device, and a title with one row per
\* device in gpu_id order for several.
C5_LayoutsComplete ==
    (ret.op = "msg_curse" /\ \A i \in Devices : stats[i].mem # PyNone /\ stats[i].proc # PyNone) =>
        /\ ret.raised = NoExc
        /\ Len(stats) = 0 => ret.lines = <<>>
        /\ Len(stats) = 1 =>
              /\ Len(ret.lines) = 7
              /\ ret.lines[1].decoration = "TITLE"
              /\ StartsWith(ret.lines[3].msg, "proc:")
              /\ Contains(ret.lines[4].msg, ToString(stats[1].proc.n) \o "%")
              /\ StartsWith(ret.lines[6].msg, "mem:")
              /\ Contains(ret.lines[7].msg, ToString(stats[1].mem.n) \o "%")
        /\ Len(stats) > 1 =>
              /\ Len(ret.lines) = 1 + 2 * Len(stats)
              /\ ret.lines[1].decoration = "TITLE"
              /\ \A i \in Devices : StartsWith(Row(i), ToString(i - 1) \o ":")

\* C6: msg_curse renders the utilization of every reading whose proc is None
\* as "N/A" and does not raise, in the detail and in the summary layout.
C6_ProcNoneRendersNA ==
    (ret.op = "msg_curse" /\ \E i \in Devices : stats[i].proc = PyNone) =>
        /\ ret.raised = NoExc
        /\ \A i \in Devices : stats[i].proc = PyNone => Contains(ProcText(i), "N/A")

\* C7: with the driver initialised and input_method 'snmp', update() returns
\* an empty list, raises nothing and issues no driver query, whatever the
\* stats were before.
C7_SnmpYieldsEmpty ==
    (ret.op = "update" /\ nvml_ready /\ input_method = "snmp") =>
        /\ stats = <<>>
        /\ ret.raised = NoExc
        /\ ret.calls = 0

C7_Witness ==
    /\ ret.op = "update"
    /\ ~is_disable
    /\ nvml_ready
    /\ input_method = "snmp"
    /\ ret.before > 0

\* C8: in every published list the gpu_id values are 0..N-1, in the order
\* the driver enumerated the devices at initialisation, and over the whole
\* run a device handle is only ever paired with one gpu_id.
C8_StableDeviceIds ==
    /\ stats # <<>> =>
          /\ Len(stats) = Len(nvml_enum)
          /\ \A i \in Devices : /\ stats[i].gpu_id = i - 1
                                /\ stats[i].name = DeviceName(nvml_enum[i])
    /\ \A a, b \in assigned : a[1] = b[1] => a[2] = b[2]
    /\ \A a \in assigned : nvml_enum[a[2] + 1] = a[1]

C8_Witness ==
    /\ Len(stats) >= 2
    /\ nvml_enum[1] # 1
    /\ Cardinality(assigned) = Len(stats)
    /\ ret.op = "update"
    /\ ret.before >= 2

\* the list update() publishes for a probe whose initialisation failed
UnavailableStats == update(FALSE, FALSE, "local", <<>>, <<>>, <<>>, TRUE).stats

\* C9: an available probe that enumerated zero devices never publishes the
\* value an unavailable probe publishes.
C9_UnavailableDistinct ==
    (Collected /\ device_handles = <<>>) => stats # UnavailableStats

\* C10: a driver error on a single query does not abort collection: there
\* is one reading per enumerated handle, with name "NVIDIA GPU" after a
\* failed name query, proc None after a failed utilization query and mem
\* None after both memory queries failed.
C10_QueryErrorsTolerated ==
    Collected =>
        /\ ret.raised = NoExc
        /\ Len(stats) = Len(device_handles)
        /\ \A i \in Devices :
              /\ ret.log[i].name = "NVMLError" => stats[i].name = "NVIDIA GPU"
              /\ ret.log[i].proc = "NVMLError" => stats[i].proc = PyNone
              /\ ret.log[i].mem = "NVMLError" => stats[i].mem = PyNone

====
